---- MODULE Spec2Model ----
(***************************************************************************)
(* A model of app.py, the Streamlit dashboard of the financial adviser:    *)
(* the session state (agent handle, analysis history), one render pass of  *)
(* main() cut at its successive sections, get_stock_data's per-symbol      *)
(* loop, the stock selection of the sidebar and the history panel.         *)
(*                                                                         *)
(* Text is modelled as a sequence of one-character strings, so that        *)
(* split, strip, upper and join are computed as Python computes them.      *)
(***************************************************************************)
EXTENDS Naturals, Sequences, FiniteSets, TLC

VARIABLES
    keys,              \* the keys present in st.session_state
    agent,             \* st.session_state.agent: 0 is None, n > 0 the n-th handle built
    analysis_history,  \* st.session_state.analysis_history
    built,             \* how many Agent objects have been constructed so far
    pc,                \* the section of the script the render pass is at
    click,             \* the button whose click triggered this pass ("none": a widget change or the page load)
    buttons,           \* the buttons on the page that can be clicked
    selected_stocks,   \* main()'s local of that name
    analysis_type,     \* main()'s local of that name
    custom_query,      \* main()'s local of that name: <<text>>, or <<>> while it is unbound
    selected_category, \* main()'s local of that name (the selectbox's value)
    multiselect,       \* what st.multiselect returned
    custom_stocks,     \* main()'s local of that name (the text input's value)
    symbols,           \* get_stock_data's parameter
    fetch_i,           \* position of get_stock_data's loop in symbols
    data,              \* get_stock_data's local mapping
    fetched,           \* the yf.Ticker calls of this pass, in order: the symbol and what the fetch did
    stock_data,        \* main()'s local of that name (empty until the call returns)
    messages,          \* st.warning / st.error / st.success / st.info boxes of this pass, in order
    agent_calls,       \* the (handle, query) pairs agent.run was called with in this pass
    run_outcome,       \* how the try block of Run Analysis went in this pass ("idle": not entered)
    start_agent,       \* the agent handle as it was when the pass started
    start_history,     \* the history list as it was when the pass started
    panel              \* the history panel of this pass: whether it is rendered, and its rows

vars == <<keys, agent, analysis_history, built, pc, click, buttons,
          selected_stocks, analysis_type, custom_query, selected_category,
          multiselect, custom_stocks, symbols, fetch_i, data, fetched, stock_data,
          messages, agent_calls, run_outcome, start_agent, start_history, panel>>

session == <<keys, agent, analysis_history, built>>
fetchVars == <<symbols, fetch_i, data, fetched, stock_data>>
sidebarVars == <<selected_stocks, analysis_type, custom_query, selected_category,
                 multiselect, custom_stocks>>
passVars == <<click, start_agent, start_history>>

(***************************************************************************)
(* Bounds of the model.                                                    *)
(***************************************************************************)
MaxText == 4       \* longest free-text symbol entry explored
MaxTickers == 3    \* longest ticker list handed to get_stock_data on its own
MaxAgents == 2     \* Agent constructions explored in one session
MaxRuns == 2       \* successful analyses explored with the full choice of inputs
MaxHistory == 6    \* successful analyses explored with the narrow choice of inputs

(***************************************************************************)
(* Program constants.                                                      *)
(***************************************************************************)
HistoryShown == 5  \* analysis_history[-5:]
DefaultCount == 3  \* popular_stocks[selected_category][:3]

(***************************************************************************)
(* Text.                                                                   *)
(***************************************************************************)
Comma == ","
Space == " "
TextChars == {"a", "B", Comma, Space}
Texts == UNION {[1..n -> TextChars] : n \in 0..MaxText}

\* str.upper() on one character
UpperChar(c) == IF c = "a" THEN "A" ELSE IF c = "b" THEN "B" ELSE c
Upper(s) == [i \in 1..Len(s) |-> UpperChar(s[i])]

\* str.strip(): leading and trailing whitespace removed
RECURSIVE LStrip(_)
LStrip(s) == IF s # <<>> /\ Head(s) = Space THEN LStrip(Tail(s)) ELSE s
RECURSIVE RStrip(_)
RStrip(s) == IF s # <<>> /\ s[Len(s)] = Space THEN RStrip(SubSeq(s, 1, Len(s) - 1)) ELSE s
Strip(s) == RStrip(LStrip(s))

\* str.split(","): the parts between the commas, always at least one part
RECURSIVE Split(_)
Split(s) ==
    IF \E i \in 1..Len(s) : s[i] = Comma
    THEN LET i == CHOOSE k \in 1..Len(s) : s[k] = Comma /\ \A j \in 1..(k - 1) : s[j] # Comma
         IN <<SubSeq(s, 1, i - 1)>> \o Split(SubSeq(s, i + 1, Len(s)))
    ELSE <<s>>

\* ', '.join(list)
RECURSIVE Join(_)
Join(l) ==
    IF l = <<>> THEN <<>>
    ELSE IF Len(l) = 1 THEN l[1]
    ELSE l[1] \o <<Comma, Space>> \o Join(Tail(l))

(***************************************************************************)
(* The sidebar's stock selection.                                          *)
(***************************************************************************)
AAPL == <<"A", "A", "P", "L">>
MSFT == <<"M", "S", "F", "T">>
GOOGL == <<"G", "O", "O", "G", "L">>
AMZN == <<"A", "M", "Z", "N">>
TSLA == <<"T", "S", "L", "A">>
NVDA == <<"N", "V", "D", "A">>
META == <<"M", "E", "T", "A">>
JPM == <<"J", "P", "M">>
BAC == <<"B", "A", "C">>
WFC == <<"W", "F", "C">>
GS == <<"G", "S">>
MS == <<"M", "S">>
CITI == <<"C">>
JNJ == <<"J", "N", "J">>
PFE == <<"P", "F", "E">>
UNH == <<"U", "N", "H">>
ABBV == <<"A", "B", "B", "V">>
MRK == <<"M", "R", "K">>
XOM == <<"X", "O", "M">>
CVX == <<"C", "V", "X">>
COP == <<"C", "O", "P">>
SLB == <<"S", "L", "B">>
EOG == <<"E", "O", "G">>

default_stocks == <<AAPL, TSLA, GOOGL>>

popular_stocks ==
    [Technology |-> <<AAPL, MSFT, GOOGL, AMZN, TSLA, NVDA, META>>,
     Finance |-> <<JPM, BAC, WFC, GS, MS, CITI>>,
     Healthcare |-> <<JNJ, PFE, UNH, ABBV, MRK>>,
     Energy |-> <<XOM, CVX, COP, SLB, EOG>>]

Categories == DOMAIN popular_stocks

\* the multiselect's default= argument
MultiselectDefault(category) ==
    IF category = "Technology"
    THEN default_stocks
    ELSE SubSeq(popular_stocks[category], 1, DefaultCount)

\* custom_list = [s.strip().upper() for s in custom_stocks.split(",")]
CustomList(text) ==
    LET parts == Split(text)
    IN [i \in 1..Len(parts) |-> Upper(Strip(parts[i]))]

\* a faulty variant: the multiselect wins over the free text
EffectiveStocksMultiFirst(multi, text) ==
    IF multi # <<>> THEN multi
    ELSE IF text # <<>> THEN CustomList(text)
    ELSE default_stocks

\* selected_stocks as main() leaves it after the stock selection
EffectiveStocks(multi, text) ==
    LET chosen == IF text # <<>> THEN CustomList(text) ELSE multi
    IN IF chosen = <<>> THEN default_stocks ELSE chosen

AnalysisTypes == {"Quick Comparison", "Detailed Analysis", "Risk Assessment", "Custom Query"}

(***************************************************************************)
(* Session state and the Agent factory.                                    *)
(***************************************************************************)
None == 0

\* a faulty variant: every run of the script starts the history afresh
SessionHistoryReset(ks, history) == <<>>

\* if 'analysis_history' not in st.session_state: ... = []
SessionHistory(ks, history) == IF "analysis_history" \in ks THEN history ELSE <<>>

\* if 'agent' not in st.session_state: ... = None
SessionAgent(ks, handle) == IF "agent" \in ks THEN handle ELSE None

Message(kind, text, about) == [kind |-> kind, text |-> text, about |-> about]

\* a faulty variant: a failed construction keeps the handle the session already had
create_agent_keep(ok, n, old) ==
    IF ok THEN [agent |-> n + 1, shown |-> <<>>]
    ELSE [agent |-> old, shown |-> <<Message("error", "Error creating agent", <<>>)>>]

\* create_agent(): the handle built (the (n+1)-th of the session), or None and an
\* error box when Agent(...) raises
create_agent(ok, n, old) ==
    IF ok THEN [agent |-> n + 1, shown |-> <<>>]
    ELSE [agent |-> None, shown |-> <<Message("error", "Error creating agent", <<>>)>>]

(***************************************************************************)
(* get_stock_data.                                                         *)
(***************************************************************************)
EmptyData == [s \in {} |-> None]

\* Close columns ticker.history may return: no row, one row, two rows
Histories == {<<>>, <<"c1">>, <<"c1", "c2">>}

\* what the two yfinance calls of one iteration do: which of them raises, if any,
\* and the history returned
FetchOutcomes ==
    {[raises |-> "history", hist |-> <<>>], [raises |-> "info", hist |-> <<"c1">>]}
    \cup {[raises |-> "no", hist |-> h] : h \in Histories}

\* a faulty variant: an empty history is dropped like a raising fetch
SnapshotStoredNonEmpty(outcome) == outcome.raises = "no" /\ outcome.hist # <<>>

\* whether the iteration reaches the assignment data[symbol] = {...}
SnapshotStored(outcome) == outcome.raises = "no"

\* hist['Close'].iloc[-1] if not hist.empty else None
CurrentPrice(hist) == IF hist # <<>> THEN hist[Len(hist)] ELSE "None"

Snapshot(hist) == [history |-> hist, info |-> "info", current_price |-> CurrentPrice(hist)]

\* the warnings after an iteration over symbol
FetchWarnings(shown, symbol, outcome) ==
    IF SnapshotStored(outcome) THEN shown
    ELSE Append(shown, Message("warning", "Could not fetch data for", symbol))

\* data after an iteration over symbol
FetchStore(d, symbol, outcome) ==
    IF SnapshotStored(outcome)
    THEN [s \in DOMAIN d \cup {symbol} |-> IF s = symbol THEN Snapshot(outcome.hist) ELSE d[s]]
    ELSE d

\* a faulty variant: the first raising fetch ends the loop
NextSymbolAbort(i, n, outcome) == IF outcome.raises = "no" THEN i + 1 ELSE n + 1

\* the position of the loop after an iteration: the except clause is inside the loop
NextSymbol(i, n, outcome) == i + 1

\* one iteration of "for symbol in symbols"
FetchSymbol(outcome) ==
    /\ pc = "fetch"
    /\ fetch_i <= Len(symbols)
    /\ fetched' = Append(fetched, [symbol |-> symbols[fetch_i], outcome |-> outcome])
    /\ data' = FetchStore(data, symbols[fetch_i], outcome)
    /\ messages' = FetchWarnings(messages, symbols[fetch_i], outcome)
    /\ fetch_i' = NextSymbol(fetch_i, Len(symbols), outcome)
    /\ UNCHANGED <<session, pc, buttons, sidebarVars, passVars, symbols, stock_data,
                   agent_calls, run_outcome, panel>>

\* return data; main() binds it to stock_data and renders the panels
FetchReturn ==
    /\ pc = "fetch"
    /\ fetch_i > Len(symbols)
    /\ stock_data' = data
    /\ pc' = "analysis"
    /\ UNCHANGED <<session, buttons, sidebarVars, passVars, symbols, fetch_i, data,
                   fetched, messages, agent_calls, run_outcome, panel>>

(***************************************************************************)
(* The render pass: main() from the top of the script to the footer.       *)
(***************************************************************************)
NoPanel == [rendered |-> FALSE, rows |-> <<>>]

\* The script starts over: on the page load, on a widget change (click "none") or on
\* the click of a button of the page; the session state is initialised on first use.
ScriptStart(c) ==
    /\ pc = "idle"
    /\ c = "none" \/ c \in buttons
    /\ click' = c
    /\ keys' = keys \cup {"agent", "analysis_history"}
    /\ agent' = SessionAgent(keys, agent)
    /\ analysis_history' = SessionHistory(keys, analysis_history)
    /\ start_agent' = agent'
    /\ start_history' = analysis_history'
    /\ buttons' = {}
    /\ selected_stocks' = <<>>
    /\ analysis_type' = "unbound"
    /\ custom_query' = <<>>
    /\ selected_category' = "unbound"
    /\ multiselect' = <<>>
    /\ custom_stocks' = <<>>
    /\ symbols' = <<>>
    /\ fetch_i' = 1
    /\ data' = EmptyData
    /\ fetched' = <<>>
    /\ stock_data' = EmptyData
    /\ messages' = <<>>
    /\ agent_calls' = <<>>
    /\ run_outcome' = "idle"
    /\ panel' = NoPanel
    /\ pc' = "sidebar"
    /\ UNCHANGED built

\* if st.button("Initialize AI Agent"): the button was not the one clicked
InitNotClicked ==
    /\ pc = "sidebar"
    /\ click # "init"
    /\ buttons' = buttons \cup {"init"}
    /\ pc' = "select"
    /\ UNCHANGED <<session, sidebarVars, passVars, fetchVars, messages, agent_calls,
                   run_outcome, panel>>

\* if st.button("Initialize AI Agent"): st.session_state.agent = create_agent()
InitAgent(ok) ==
    /\ pc = "sidebar"
    /\ click = "init"
    /\ ok => built < MaxAgents
    /\ LET made == create_agent(ok, built, agent)
       IN /\ agent' = made.agent
          /\ built' = IF ok THEN built + 1 ELSE built
          /\ messages' = messages \o made.shown \o
                 <<IF made.agent # None
                   THEN Message("success", "Agent initialized successfully!", <<>>)
                   ELSE Message("error", "Failed to initialize agent", <<>>)>>
    /\ buttons' = buttons \cup {"init"}
    /\ pc' = "select"
    /\ UNCHANGED <<keys, analysis_history, sidebarVars, passVars, fetchVars, agent_calls,
                   run_outcome, panel>>

\* The stock selection and the analysis options of the sidebar.
StockSelection(category, multi, text, type, query) ==
    /\ pc = "select"
    /\ selected_category' = category
    /\ multiselect' = multi
    /\ custom_stocks' = text
    /\ selected_stocks' = EffectiveStocks(multi, text)
    /\ analysis_type' = type
    /\ custom_query' = IF type = "Custom Query" THEN <<query>> ELSE <<>>
    /\ pc' = "data"
    /\ UNCHANGED <<session, buttons, passVars, fetchVars, messages, agent_calls,
                   run_outcome, panel>>

\* if selected_stocks: stock_data = get_stock_data(selected_stocks)
DataPanels ==
    /\ pc = "data"
    /\ IF selected_stocks # <<>>
       THEN /\ symbols' = selected_stocks
            /\ pc' = "fetch"
       ELSE /\ symbols' = symbols
            /\ pc' = "analysis"
    /\ fetch_i' = 1
    /\ data' = EmptyData
    /\ UNCHANGED <<session, buttons, sidebarVars, passVars, fetched, stock_data, messages,
                   agent_calls, run_outcome, panel>>

\* a faulty variant: the prompt always names the default stocks
ComposeQueryDefault(type, stocks, query) ==
    [template |-> type,
     tickers |-> Join(default_stocks),
     text |-> IF type = "Custom Query" THEN query[1] ELSE <<>>]

\* The prompt: the template of the analysis type, with ', '.join(selected_stocks) in
\* it and, for a custom query, the query after it.
ComposeQuery(type, stocks, query) ==
    [template |-> type,
     tickers |-> Join(stocks),
     text |-> IF type = "Custom Query" THEN query[1] ELSE <<>>]

\* a faulty variant: the Run Analysis button is there without an agent
RunAvailableAlways(handle) == TRUE

\* "if not st.session_state.agent: ... else:" the section with the button
RunAvailable(handle) == handle # None

\* the record appended after a response was displayed
AnalysisRecord(stocks, query, content) ==
    [timestamp |-> "now", stocks |-> stocks, query |-> query, response |-> content,
     duration |-> "elapsed"]

\* a faulty variant: the record is appended before the response is known to be good
HistoryAfterRunEager(history, stocks, query, outcome) ==
    Append(history, AnalysisRecord(stocks, query, outcome.content))

\* The history after the try block: the append is its last statement but one, so it
\* is reached only when nothing before it raised.
HistoryAfterRun(history, stocks, query, outcome) ==
    IF outcome.fails = "no"
    THEN Append(history, AnalysisRecord(stocks, query, outcome.content))
    ELSE history

\* what agent.run, response.content and st.markdown may do: the place that raises,
\* if any, and the content of the response
RunOutcomes(contents) ==
    {[fails |-> f, content |-> "none"] : f \in {"run", "content"}}
    \cup {[fails |-> f, content |-> r] : f \in {"display", "no"}, r \in contents}

\* no agent: the warning, and no button
AgentMissing ==
    /\ pc = "analysis"
    /\ ~RunAvailable(agent)
    /\ messages' = Append(messages,
           Message("warning", "Please initialize the AI Agent in the sidebar first.", <<>>))
    /\ pc' = "history"
    /\ UNCHANGED <<session, buttons, sidebarVars, passVars, fetchVars, agent_calls,
                   run_outcome, panel>>

\* the button is rendered and was not the one clicked
RunNotClicked ==
    /\ pc = "analysis"
    /\ RunAvailable(agent)
    /\ click # "run" \/ selected_stocks = <<>>
    /\ buttons' = IF selected_stocks # <<>> THEN buttons \cup {"run"} ELSE buttons
    /\ pc' = "history"
    /\ UNCHANGED <<session, sidebarVars, passVars, fetchVars, messages, agent_calls,
                   run_outcome, panel>>

\* the button was clicked: the query is composed and sent to the agent
RunAnalysis(outcome) ==
    /\ pc = "analysis"
    /\ RunAvailable(agent)
    /\ click = "run"
    /\ selected_stocks # <<>>
    /\ LET query == ComposeQuery(analysis_type, selected_stocks, custom_query)
       IN /\ agent_calls' = Append(agent_calls, [agent |-> agent, query |-> query])
          /\ analysis_history' =
                 HistoryAfterRun(analysis_history, selected_stocks, query, outcome)
    /\ run_outcome' = outcome.fails
    /\ messages' = messages \o
           (IF outcome.fails = "no"
            THEN <<Message("success", "Analysis completed", <<>>)>>
            ELSE <<Message("error", "Analysis failed", <<>>),
                   Message("info", "Try reinitializing the agent or check your query.", <<>>)>>)
    /\ buttons' = buttons \cup {"run"}
    /\ pc' = "history"
    /\ UNCHANGED <<keys, agent, built, sidebarVars, passVars, fetchVars, panel>>

\* a faulty variant: the rows are numbered from the top of the panel
HistoryRowsFromTop(history) ==
    LET n == Len(history)
        shown == IF n > HistoryShown THEN HistoryShown ELSE n
    IN [i \in 1..shown |-> [label |-> i, analysis |-> history[n - (i - 1)]]]

\* for i, analysis in enumerate(reversed(history[-5:])): the row's label is
\* len(history) - i
HistoryRows(history) ==
    LET n == Len(history)
        last == SubSeq(history, IF n > HistoryShown THEN n - HistoryShown + 1 ELSE 1, n)
    IN [i \in 1..Len(last) |->
           [label |-> n - (i - 1), analysis |-> last[Len(last) - (i - 1)]]]

\* if st.session_state.analysis_history: the panel; then the footer
HistoryPanel ==
    /\ pc = "history"
    /\ panel' = IF analysis_history # <<>>
                THEN [rendered |-> TRUE, rows |-> HistoryRows(analysis_history)]
                ELSE NoPanel
    /\ pc' = "idle"
    /\ UNCHANGED <<session, buttons, sidebarVars, passVars, fetchVars, messages,
                   agent_calls, run_outcome>>

(***************************************************************************)
(* The session: render passes one after the other, each started by the     *)
(* page load, a widget change or the click of one button.                  *)
(***************************************************************************)
Clicks == {"none", "init", "run"}

Init ==
    /\ keys = {}
    /\ agent = None
    /\ analysis_history = <<>>
    /\ built = 0
    /\ pc = "idle"
    /\ click = "none"
    /\ buttons = {}
    /\ selected_stocks = <<>>
    /\ analysis_type = "unbound"
    /\ custom_query = <<>>
    /\ selected_category = "unbound"
    /\ multiselect = <<>>
    /\ custom_stocks = <<>>
    /\ symbols = <<>>
    /\ fetch_i = 1
    /\ data = EmptyData
    /\ fetched = <<>>
    /\ stock_data = EmptyData
    /\ messages = <<>>
    /\ agent_calls = <<>>
    /\ run_outcome = "idle"
    /\ start_agent = None
    /\ start_history = <<>>
    /\ panel = NoPanel

\* the widget values and the outcomes explored in a session
SessionCategories == {"Technology"}
SessionMultiselects(category) == {<<>>, MultiselectDefault(category)}
SessionTexts == {<<>>, <<"a", Comma, Space, "a">>}
SessionTypes == {"Quick Comparison", "Custom Query"}
SessionQueries == {<<>>, <<"q">>}
SessionFetches == {o \in FetchOutcomes : o.raises = "no" /\ Len(o.hist) = 2}
SessionContents == {"r1"}

Next ==
    \/ \E c \in Clicks : ScriptStart(c)
    \/ InitNotClicked
    \/ \E ok \in BOOLEAN : InitAgent(ok)
    \/ \E category \in SessionCategories, text \in SessionTexts,
          type \in SessionTypes, query \in SessionQueries :
          \E multi \in SessionMultiselects(category) :
              StockSelection(category, multi, text, type, query)
    \/ DataPanels
    \/ \E o \in SessionFetches : FetchSymbol(o)
    \/ FetchReturn
    \/ AgentMissing
    \/ RunNotClicked
    \/ \E o \in RunOutcomes(SessionContents) :
          /\ o.fails = "no" => Len(analysis_history) < MaxRuns
          /\ RunAnalysis(o)
    \/ HistoryPanel

Spec == Init /\ [][Next]_vars

(***************************************************************************)
(* A long session with few inputs: the history grows past the panel's size *)
(***************************************************************************)
LongTypes == {"Quick Comparison"}
LongFetches == {o \in FetchOutcomes : o.raises = "history" \/ Len(o.hist) = 2}
LongContents == {"r1", "r2"}

NextLong ==
    \/ \E c \in Clicks : ScriptStart(c)
    \/ InitNotClicked
    \/ \E ok \in BOOLEAN : InitAgent(ok)
    \/ \E type \in LongTypes :
          StockSelection("Technology", MultiselectDefault("Technology"), <<>>, type, <<>>)
    \/ DataPanels
    \/ \E o \in LongFetches : FetchSymbol(o)
    \/ FetchReturn
    \/ AgentMissing
    \/ RunNotClicked
    \/ \E o \in RunOutcomes(LongContents) :
          /\ o.fails = "no" => Len(analysis_history) < MaxHistory
          /\ RunAnalysis(o)
    \/ HistoryPanel

SpecLong == Init /\ [][NextLong]_vars

(***************************************************************************)
(* get_stock_data on its own, over every short ticker list.                *)
(***************************************************************************)
FetchTickers == {AAPL, MSFT}
TickerLists == UNION {[1..n -> FetchTickers] : n \in 0..MaxTickers}

InitFetch ==
    /\ keys = {"agent", "analysis_history"}
    /\ agent = None
    /\ analysis_history = <<>>
    /\ built = 0
    /\ pc = "fetch"
    /\ click = "none"
    /\ buttons = {"init"}
    /\ symbols \in TickerLists
    /\ selected_stocks = symbols
    /\ analysis_type = "Quick Comparison"
    /\ custom_query = <<>>
    /\ selected_category = "Technology"
    /\ multiselect = <<>>
    /\ custom_stocks = <<>>
    /\ fetch_i = 1
    /\ data = EmptyData
    /\ fetched = <<>>
    /\ stock_data = EmptyData
    /\ messages = <<>>
    /\ agent_calls = <<>>
    /\ run_outcome = "idle"
    /\ start_agent = None
    /\ start_history = <<>>
    /\ panel = NoPanel

NextFetch ==
    \/ \E o \in FetchOutcomes : FetchSymbol(o)
    \/ FetchReturn

SpecFetch == InitFetch /\ [][NextFetch]_vars

(***************************************************************************)
(* The stock selection on its own, over every short free text.             *)
(***************************************************************************)
\* values st.multiselect may return: nothing, one option, its default
Multiselects(category) ==
    {<<>>, MultiselectDefault(category)}
    \cup {<<popular_stocks[category][i]>> : i \in 1..DefaultCount}

\* the widget values are on the page when the script reaches the sidebar
InitSelect ==
    /\ keys = {"agent", "analysis_history"}
    /\ agent = None
    /\ analysis_history = <<>>
    /\ built = 0
    /\ pc = "select"
    /\ click = "none"
    /\ buttons = {"init"}
    /\ selected_stocks = <<>>
    /\ analysis_type \in SessionTypes
    /\ custom_query \in {<<q>> : q \in SessionQueries}
    /\ selected_category \in Categories
    /\ multiselect \in Multiselects(selected_category)
    /\ custom_stocks \in Texts
    /\ symbols = <<>>
    /\ fetch_i = 1
    /\ data = EmptyData
    /\ fetched = <<>>
    /\ stock_data = EmptyData
    /\ messages = <<>>
    /\ agent_calls = <<>>
    /\ run_outcome = "idle"
    /\ start_agent = None
    /\ start_history = <<>>
    /\ panel = NoPanel

NextSelect ==
    \/ StockSelection(selected_category, multiselect, custom_stocks, analysis_type,
                      custom_query[1])
    \/ DataPanels

SpecSelect == InitSelect /\ [][NextSelect]_vars

(***************************************************************************)
(* Properties.                                                             *)
(***************************************************************************)
Returned == pc = "analysis"
Raising == SelectSeq(fetched, LAMBDA f : f.outcome.raises # "no")
PassOver == pc = "idle" /\ keys # {}
AfterSidebar == pc \in {"select", "data", "fetch", "analysis", "history"} \/ PassOver
AfterAnalysis == pc = "history" \/ PassOver
IsPrefix(short, long) ==
    Len(short) <= Len(long) /\ \A i \in 1..Len(short) : long[i] = short[i]

\* C1: get_stock_data returns for every ticker list and every pattern of raising
\* fetches; every symbol of the list is fetched, in order, whatever the earlier
\* fetches did; the keys returned are the symbols that had a fetch that did not
\* raise; there is one warning per raising fetch, naming its symbol, in order.
C1_FetchIsolatesFailures ==
    /\ pc \in {"fetch", "analysis"}
    /\ pc = "fetch" => fetch_i <= Len(symbols) + 1
    /\ Returned =>
          /\ Len(fetched) = Len(symbols)
          /\ \A i \in 1..Len(symbols) : fetched[i].symbol = symbols[i]
          /\ DOMAIN stock_data =
                 {fetched[i].symbol : i \in {j \in 1..Len(fetched) : fetched[j].outcome.raises = "no"}}
          /\ DOMAIN stock_data \subseteq {symbols[i] : i \in 1..Len(symbols)}
          /\ (\A i \in 1..Len(fetched) : fetched[i].outcome.raises # "no") => stock_data = EmptyData
          /\ Len(messages) = Len(Raising)
          /\ \A k \in 1..Len(Raising) :
                 messages[k].kind = "warning" /\ messages[k].about = Raising[k].symbol

\* a call where the first fetch raised and a later one was still made and kept
C1_Witness ==
    /\ Returned
    /\ Len(symbols) = 3
    /\ fetched[1].outcome.raises # "no"
    /\ fetched[3].outcome.raises = "no"
    /\ symbols[3] \in DOMAIN stock_data
    /\ Len(messages) = 2

\* C6 as stated: every key of the returned mapping has a non-empty history and a
\* current price, an empty result being dropped with a warning.
C6_EmptyHistoryDropped ==
    Returned =>
        /\ \A s \in DOMAIN stock_data :
               stock_data[s].history # <<>> /\ stock_data[s].current_price # "None"
        /\ Len(messages) = Cardinality({i \in 1..Len(fetched) :
               fetched[i].outcome.raises # "no" \/ fetched[i].outcome.hist = <<>>})

\* C6, as the code has it: a fetch that returns an empty history without raising is
\* no failure: no warning is emitted for it and its symbol is a key of the returned
\* mapping, with the empty history and no current price; a key has a current price
\* exactly when its history is not empty, and it is then the last Close.
C6_EmptyHistoryKept ==
    Returned =>
        /\ \A i \in 1..Len(fetched) :
               fetched[i].outcome.raises = "no" => fetched[i].symbol \in DOMAIN stock_data
        /\ \A s \in DOMAIN stock_data :
               LET last == CHOOSE i \in 1..Len(fetched) :
                               /\ fetched[i].symbol = s
                               /\ fetched[i].outcome.raises = "no"
                               /\ \A j \in (i + 1)..Len(fetched) :
                                      fetched[j].symbol = s => fetched[j].outcome.raises # "no"
               IN /\ stock_data[s].history = fetched[last].outcome.hist
                  /\ (stock_data[s].history = <<>>) <=> (stock_data[s].current_price = "None")
                  /\ stock_data[s].history # <<>> =>
                         stock_data[s].current_price =
                             stock_data[s].history[Len(stock_data[s].history)]
        /\ Len(messages) =
               Cardinality({i \in 1..Len(fetched) : fetched[i].outcome.raises # "no"})

\* a call that returned a key with an empty history and showed no warning
C6_Witness ==
    /\ Returned
    /\ messages = <<>>
    /\ \E s \in DOMAIN stock_data :
           stock_data[s].history = <<>> /\ stock_data[s].current_price = "None"

Shown(kind, text) == \E i \in 1..Len(messages) : messages[i].kind = kind /\ messages[i].text = text

\* C2: when the agent call of a Run Analysis raises (in agent.run, reading the
\* response or displaying it), the history is what it was when the pass started,
\* the agent handle too, the error is shown, and the pass goes on to its end.
C2_FailedRunLeavesHistory ==
    run_outcome \in {"run", "content", "display"} =>
        /\ analysis_history = start_history
        /\ agent = start_agent
        /\ Len(agent_calls) = 1
        /\ Shown("error", "Analysis failed")
        /\ ~Shown("success", "Analysis completed")
        /\ AfterAnalysis

\* a pass over, in which the response could not be displayed, with a history kept
C2_Witness ==
    /\ PassOver
    /\ run_outcome = "display"
    /\ Len(analysis_history) = 2
    /\ panel.rendered

\* C3: a pass that starts without an agent handle, or leaves the sidebar without
\* one, never calls the agent, leaves the history as it was and leaves no Run
\* Analysis button to click; the agent is called only with a handle that is
\* present, and with a ticker list that is not empty.
C3_NoAgentNoRun ==
    /\ (keys # {} /\ (start_agent = None \/ (AfterSidebar /\ agent = None))) =>
           /\ agent_calls = <<>>
           /\ run_outcome = "idle"
           /\ analysis_history = start_history
    /\ (AfterAnalysis /\ agent = None) => "run" \notin buttons
    /\ (pc = "idle" /\ agent = None) => "run" \notin buttons
    /\ \A i \in 1..Len(agent_calls) :
           /\ agent_calls[i].agent # None
           /\ agent_calls[i].agent = agent
           /\ start_agent = agent
           /\ selected_stocks # <<>>

\* a pass that started with a handle and a history, lost the handle in the sidebar
\* and is over
C3_Witness ==
    /\ PassOver
    /\ start_agent # None
    /\ agent = None
    /\ analysis_history # <<>>
    /\ click = "init"

\* C4 (state part): after a successful Run Analysis the history is the one of the
\* start of the pass with one record more; the record holds the ticker list of this
\* pass, which is the one the data was fetched for, and the prompt sent to the
\* agent, which is the one composed from this list and the analysis type.
C4_RecordOfThisPass ==
    run_outcome = "no" =>
        /\ Len(analysis_history) = Len(start_history) + 1
        /\ IsPrefix(start_history, analysis_history)
        /\ Len(agent_calls) = 1
        /\ LET record == analysis_history[Len(analysis_history)]
           IN /\ record.stocks = selected_stocks
              /\ record.stocks = EffectiveStocks(multiselect, custom_stocks)
              /\ symbols = record.stocks
              /\ \A i \in 1..Len(fetched) : fetched[i].symbol = record.stocks[i]
              /\ record.query = agent_calls[1].query
              /\ record.query.template = analysis_type
              /\ record.query.tickers = Join(selected_stocks)
              /\ record.query.text =
                     (IF analysis_type = "Custom Query" THEN custom_query[1] ELSE <<>>)

\* C4: each successful Run Analysis appends exactly one record, of the ticker list
\* and the prompt of its own pass; no later step changes the ticker list of a
\* stored record.
C4_RecordMatchesRequest ==
    /\ []C4_RecordOfThisPass
    /\ [][\A i \in 1..Len(analysis_history) :
              /\ i <= Len(analysis_history')
              /\ analysis_history'[i].stocks = analysis_history[i].stocks]_vars

\* a second successful run, on the free-text symbols, after one on other symbols
C4_Witness ==
    /\ PassOver
    /\ run_outcome = "no"
    /\ custom_stocks # <<>>
    /\ analysis_type = "Custom Query"
    /\ Len(analysis_history) = 2
    /\ analysis_history[1].stocks # analysis_history[2].stocks

\* C5: a Run Analysis in Custom Query mode with an empty query calls no agent and
\* appends no record.
C5_EmptyCustomQueryNotRun ==
    (AfterAnalysis /\ click = "run" /\ analysis_type = "Custom Query"
     /\ custom_query = <<<<>>>>) =>
        /\ agent_calls = <<>>
        /\ analysis_history = start_history

\* C7: an Initialize Agent whose construction fails leaves no handle, whatever
\* the session had, and shows the error; one whose construction succeeds leaves
\* the handle just built, not the prior one; both go on with the pass and leave
\* the history alone; no other step changes the handle.
C7_InitReplacesHandle ==
    [][/\ (pc = "sidebar" /\ click = "init") =>
              /\ analysis_history' = analysis_history
              /\ pc' = "select"
              /\ built' = built =>
                     /\ agent' = None
                     /\ \E i \in 1..Len(messages') :
                            messages'[i] = Message("error", "Failed to initialize agent", <<>>)
              /\ built' # built =>
                     /\ built' = built + 1
                     /\ agent' = built'
                     /\ agent' # agent
                     /\ agent' # None
       /\ ~(pc = "sidebar" /\ click = "init") => agent' = agent]_vars

\* a failed construction, in a pass that started with a handle and a history
C7_Witness ==
    /\ pc = "select"
    /\ click = "init"
    /\ start_agent # None
    /\ agent = None
    /\ analysis_history # <<>>
    /\ Shown("error", "Error creating agent")

Min(a, b) == IF a < b THEN a ELSE b

\* C8: with n >= 1 records the panel lists the last min(5, n) of them, the most
\* recent first, each under the number of its place in the whole history (counted
\* from 1); with no record there is no panel.
C8_PanelShowsLastFive ==
    PassOver =>
        LET n == Len(analysis_history)
        IN /\ n = 0 => ~panel.rendered /\ panel.rows = <<>>
           /\ n >= 1 =>
                  /\ panel.rendered
                  /\ Len(panel.rows) = Min(HistoryShown, n)
                  /\ panel.rows[1].label = n
                  /\ \A i \in 1..Len(panel.rows) :
                         /\ panel.rows[i].label \in 1..n
                         /\ panel.rows[i].analysis = analysis_history[panel.rows[i].label]
                         /\ i > 1 => panel.rows[i].label = panel.rows[i - 1].label - 1

\* a panel over more records than it shows, the records shown not all alike
C8_Witness ==
    /\ PassOver
    /\ Len(analysis_history) > HistoryShown
    /\ Len(panel.rows) = HistoryShown
    /\ panel.rows[1].analysis # panel.rows[2].analysis
    /\ panel.rows[HistoryShown].label = Len(analysis_history) - HistoryShown + 1

\* C9: every step leaves the history as it is or adds one record at its end, the
\* records before it unchanged and none removed; the start of a pass changes
\* neither the history nor the agent handle once the session holds them.
C9_HistoryAppendOnly ==
    [][/\ \/ analysis_history' = analysis_history
          \/ /\ Len(analysis_history') = Len(analysis_history) + 1
             /\ IsPrefix(analysis_history, analysis_history')
       /\ (pc = "idle" /\ {"agent", "analysis_history"} \subseteq keys) =>
              /\ analysis_history' = analysis_history
              /\ agent' = agent
              /\ keys' = keys]_vars

\* a pass starting in a session that holds a handle and more records than shown
C9_Witness ==
    /\ pc = "sidebar"
    /\ Len(analysis_history) > HistoryShown
    /\ agent # None
    /\ analysis_history = start_history

Commas(text) == Cardinality({i \in 1..Len(text) : text[i] = Comma})

\* C10: the ticker list in force is, for a free text that is not empty, the parts
\* of the text between its commas, each trimmed and uppercased, whatever the
\* multiselect holds; else the multiselect's selection when there is one; else the
\* default three. It is never empty, and equal parts are all kept.
C10_EffectiveTickers ==
    (pc # "select") =>
        /\ custom_stocks # <<>> =>
               /\ Len(selected_stocks) = Commas(custom_stocks) + 1
               /\ selected_stocks =
                      [i \in 1..Len(Split(custom_stocks)) |->
                          Upper(Strip(Split(custom_stocks)[i]))]
               /\ \A i \in 1..Len(selected_stocks) :
                      LET t == selected_stocks[i]
                      IN /\ \A k \in 1..Len(t) : t[k] \notin {"a", Comma}
                         /\ t # <<>> => t[1] # Space /\ t[Len(t)] # Space
        /\ (custom_stocks = <<>> /\ multiselect # <<>>) => selected_stocks = multiselect
        /\ (custom_stocks = <<>> /\ multiselect = <<>>) =>
               selected_stocks = <<AAPL, TSLA, GOOGL>>
        /\ selected_stocks # <<>>
        /\ symbols \in {<<>>, selected_stocks}
        /\ pc = "fetch" => symbols = selected_stocks

\* a free text with two equal symbols, typed over a multiselect that is not empty
C10_Witness ==
    /\ pc = "fetch"
    /\ multiselect # <<>>
    /\ custom_stocks = <<Space, "a", Comma, "a">>
    /\ selected_stocks = <<<<"A">>, <<"A">>>>
    /\ symbols = selected_stocks

====
